---- MODULE Spec2Model ----
(***************************************************************************)
(* Extended backpropagation: strategy registry, parallel composite and     *)
(* the Conv2d first-order statistics layer.                                *)
(*                                                                         *)
(*   SpecStrategy  backpack/secondorder/strategies.py                      *)
(*   SpecParallel  bpexts/hbp/parallel (HBPParallel, seen through its test)*)
(*   SpecForward   bpexts/gradient/conv2d.py, forward hook on two layers   *)
(*   SpecConv      bpexts/gradient/conv2d.py, all hooks of one layer       *)
(*   SpecStats     bpexts/gradient/conv2d.py, forward/backward/clear cycle *)
(***************************************************************************)
EXTENDS Integers, Sequences, FiniteSets, TLC

VARIABLES
    strategy,          \* the label handed to the strategy registry
    ret,               \* outcome of each registry method for that label
    layers,            \* HBPParallel: out_features of each sibling, in order
    p_call,            \* HBPParallel: the last call and its outcome
    p_orig,            \* HBPParallel: the partition before the last merge
    heap,              \* tensor objects: identity -> value (or Free)
    input,             \* Conv2d: module -> identity of the buffer `input`
    weight,            \* Conv2d: module -> the weight parameter
    bias,              \* Conv2d: module -> the bias parameter, or None
    ctx_active,        \* CTX: the active extensions
    c_call,            \* Conv2d: the last hook or method call and its outcome
    accepted,          \* Conv2d: module -> value of the last accepted input
    last_pass,         \* Conv2d: module -> what its latest backward hook call wrote
    pc,                \* SpecStats: position in the forward/backward/clear cycle
    ctx_sqrt_h,        \* CTX._backpropagated_sqrt_h: the factors being backpropagated
    ctx_signs,         \* CTX._backpropagated_sqrt_h_signs
    ctx_owner,         \* the traversal that last wrote CTX (0: nobody)
    t_pc,              \* traversal -> "idle" | "running" | "failed"
    t_read,            \* traversal -> what its latest hook read from CTX
    r_call,            \* DiagHReLU: the last hook call and its outcome
    d_call,            \* loss derivatives: the last call or test and its outcome
    h_weight,          \* HBPParallel: the weight rows of the siblings, stacked
    h_call             \* HBPParallel: the last Hessian backpropagation and its results

stratVars == <<strategy, ret>>
parVars   == <<layers, p_call, p_orig>>
convVars  == <<heap, input, weight, bias, ctx_active, c_call, accepted, last_pass, pc>>
ctxVars   == <<ctx_sqrt_h, ctx_signs, ctx_owner, t_pc, t_read, r_call>>
lossVars  == <<d_call>>
hbpVars   == <<h_weight, h_call>>
extVars   == <<ctxVars, lossVars, hbpVars>>
vars      == <<strategy, ret, layers, p_call, p_orig,
               heap, input, weight, bias, ctx_active, c_call, accepted, last_pass, pc,
               ctx_sqrt_h, ctx_signs, ctx_owner, t_pc, t_read, r_call,
               d_call, h_weight, h_call>>

None == "None"

(***************************************************************************)
(* Python outcomes: a call returns a value or raises an exception.         *)
(***************************************************************************)
Return(v) == [raised |-> FALSE, exc |-> None, value |-> v]
Raise(e)  == [raised |-> TRUE, exc |-> e, value |-> None]

\* Python's `x in list`
In(x, list) == \E i \in DOMAIN list : list[i] = x

(***************************************************************************)
(* Strategy registry                                                       *)
(***************************************************************************)
EXACT    == "exact"
SAMPLING == "sampling"
AVERAGE  == "average"
LossHessianStrategy_CHOICES == <<EXACT, SAMPLING, AVERAGE>>

SQRT          == "sqrt"
BATCH_AVERAGE == "average"
BackpropStrategy_CHOICES == <<BATCH_AVERAGE, SQRT>>

BOTEV_MARTENS == "E[J^T E(H) J]"
CHEN          == "E(J^T) E(H) E(J)"
ExpectationApproximation_CHOICES == <<BOTEV_MARTENS, CHEN>>

PyBool(b) == IF b THEN "True" ELSE "False"

LossHessianStrategy_check_exists(s) ==
    IF ~In(s, LossHessianStrategy_CHOICES)
    THEN Raise("AttributeError")
    ELSE Return(None)

Mut_BackpropStrategy_check_exists(s) == Return(None)

BackpropStrategy_check_exists(s) ==
    IF ~In(s, BackpropStrategy_CHOICES)
    THEN Raise("AttributeError")
    ELSE Return(None)

BackpropStrategy_is_batch_average(s) ==
    LET c == BackpropStrategy_check_exists(s)
    IN  IF c.raised THEN c ELSE Return(PyBool(s = BATCH_AVERAGE))

Mut_BackpropStrategy_is_sqrt(s) ==
    LET c == BackpropStrategy_check_exists(s)
    IN  IF c.raised THEN c ELSE Return(PyBool(s = BATCH_AVERAGE))

BackpropStrategy_is_sqrt(s) ==
    LET c == BackpropStrategy_check_exists(s)
    IN  IF c.raised THEN c ELSE Return(PyBool(s = SQRT))

ExpectationApproximation_check_exists(s) ==
    IF ~In(s, ExpectationApproximation_CHOICES)
    THEN Raise("AttributeError")
    ELSE Return(None)

Mut_should_average_param_jac(s) ==
    LET c == ExpectationApproximation_check_exists(s)
    IN  IF c.raised THEN c ELSE Return(PyBool(s = BOTEV_MARTENS))

ExpectationApproximation_should_average_param_jac(s) ==
    LET c == ExpectationApproximation_check_exists(s)
    IN  IF c.raised THEN c ELSE Return(PyBool(s = CHEN))

\* The methods of the three enumerations, by qualified name.
M_LHS_check  == "LossHessianStrategy.check_exists"
M_BPS_check  == "BackpropStrategy.check_exists"
M_BPS_avg    == "BackpropStrategy.is_batch_average"
M_BPS_sqrt   == "BackpropStrategy.is_sqrt"
M_EA_check   == "ExpectationApproximation.check_exists"
M_EA_avg     == "ExpectationApproximation.should_average_param_jac"
Methods == {M_LHS_check, M_BPS_check, M_BPS_avg, M_BPS_sqrt, M_EA_check, M_EA_avg}

\* The CHOICES of the enumeration a method belongs to.
ChoicesOf(m) ==
    IF m = M_LHS_check THEN LossHessianStrategy_CHOICES
    ELSE IF m \in {M_BPS_check, M_BPS_avg, M_BPS_sqrt} THEN BackpropStrategy_CHOICES
    ELSE ExpectationApproximation_CHOICES

\* Labels a caller may hand in: every label of every enumeration, and some of none.
StrategyLabels ==
    {EXACT, SAMPLING, AVERAGE, SQRT, BOTEV_MARTENS, CHEN,
     "", "SQRT", "Average", "E[J^T E(H) J] ", None}

NotCalled == [raised |-> FALSE, exc |-> None, value |-> "NotCalled"]

StratIdle == strategy = None /\ ret = [m \in Methods |-> NotCalled]

StratInit ==
    /\ strategy \in StrategyLabels
    /\ ret = [m \in Methods |-> NotCalled]

\* The caller turns to another label.
SetStrategy ==
    /\ strategy' \in StrategyLabels \ {strategy}
    /\ ret' = [m \in Methods |-> NotCalled]
    /\ UNCHANGED <<parVars, convVars, extVars>>

CallLossHessianCheckExists ==
    /\ ret' = [ret EXCEPT ![M_LHS_check] = LossHessianStrategy_check_exists(strategy)]
    /\ UNCHANGED <<strategy, parVars, convVars, extVars>>

CallBackpropCheckExists ==
    /\ ret' = [ret EXCEPT ![M_BPS_check] = BackpropStrategy_check_exists(strategy)]
    /\ UNCHANGED <<strategy, parVars, convVars, extVars>>

CallIsBatchAverage ==
    /\ ret' = [ret EXCEPT ![M_BPS_avg] = BackpropStrategy_is_batch_average(strategy)]
    /\ UNCHANGED <<strategy, parVars, convVars, extVars>>

CallIsSqrt ==
    /\ ret' = [ret EXCEPT ![M_BPS_sqrt] = BackpropStrategy_is_sqrt(strategy)]
    /\ UNCHANGED <<strategy, parVars, convVars, extVars>>

CallEACheckExists ==
    /\ ret' = [ret EXCEPT ![M_EA_check] = ExpectationApproximation_check_exists(strategy)]
    /\ UNCHANGED <<strategy, parVars, convVars, extVars>>

CallShouldAverageParamJac ==
    /\ ret' = [ret EXCEPT ![M_EA_avg] =
                  ExpectationApproximation_should_average_param_jac(strategy)]
    /\ UNCHANGED <<strategy, parVars, convVars, extVars>>

StratNext ==
    \/ SetStrategy
    \/ CallLossHessianCheckExists
    \/ CallBackpropCheckExists
    \/ CallIsBatchAverage
    \/ CallIsSqrt
    \/ CallEACheckExists
    \/ CallShouldAverageParamJac

(***************************************************************************)
(* Parallel composite (HBPParallel): partition of the output features      *)
(***************************************************************************)
MaxFeatures == 10      \* largest total_out_features of a composite
MaxBlocks   == 15      \* largest target block count handed to merge

Mut_test_splitting_into_blocks ==
    [out_features_list |-> <<3, 2, 5>>,
     cases |-> { <<1, <<10>>>>,
                 <<4, <<2, 2, 3, 3>>>>,
                 <<5, <<2, 2, 2, 2, 2>>>>,
                 <<6, <<1, 1, 2, 2, 2, 2>>>>,
                 <<10, <<1, 1, 1, 1, 1, 1, 1, 1, 1, 1>>>>,
                 <<15, <<1, 1, 1, 1, 1, 1, 1, 1, 1, 1>>>> }]

Mut_test_unit_blocks ==
    [out_features_list |-> <<3, 2, 5>>,
     cases |-> { <<1, <<10>>>>,
                 <<4, <<3, 3, 2, 2>>>>,
                 <<5, <<2, 2, 2, 2, 2>>>>,
                 <<6, <<2, 2, 2, 2, 1, 1>>>>,
                 <<10, <<1, 1, 1, 1, 1, 1, 1, 1, 1, 1>>>>,
                 <<15, <<1, 1, 1, 1, 1, 1, 1, 1, 1, 1, 1, 1, 1, 1, 1>>>> }]

\* What the repository's test asserts of a composite of 10 output features.
test_splitting_into_blocks ==
    [out_features_list |-> <<3, 2, 5>>,
     cases |-> { <<1, <<10>>>>,
                 <<4, <<3, 3, 2, 2>>>>,
                 <<5, <<2, 2, 2, 2, 2>>>>,
                 <<6, <<2, 2, 2, 2, 1, 1>>>>,
                 <<10, <<1, 1, 1, 1, 1, 1, 1, 1, 1, 1>>>>,
                 <<15, <<1, 1, 1, 1, 1, 1, 1, 1, 1, 1>>>> }]

\* Callers construct and split with as many siblings as the test does.
MaxSiblings == Len(test_splitting_into_blocks.out_features_list)

RECURSIVE Sum(_)
Sum(s) == IF s = <<>> THEN 0 ELSE Head(s) + Sum(Tail(s))

Min(a, b) == IF a <= b THEN a ELSE b

Reverse(s) == [i \in 1..Len(s) |-> s[Len(s) + 1 - i]]

\* Size lists a caller can write down: 1..MaxSiblings positive sizes.
SizeLists ==
    { s \in UNION { [1..n -> 1..MaxFeatures] : n \in 1..MaxSiblings } :
        Sum(s) <= MaxFeatures + 1 }

total_out_features(ls) == Sum(ls)

Mut_compute_out_features_list(ls, k) ==
    LET T == total_out_features(ls)
        n == Min(Min(k, T), Len(ls) + 1)
        q == T \div n
        r == T % n
    IN  [i \in 1..n |-> IF i <= r THEN q + 1 ELSE q]

\* merge: at most k blocks of size ceil(T/k) or floor(T/k), the larger first;
\* k >= T gives T unit blocks.
compute_out_features_list(ls, k) ==
    LET T == total_out_features(ls)
        n == Min(k, T)
        q == T \div n
        r == T % n
    IN  [i \in 1..n |-> IF i <= r THEN q + 1 ELSE q]

Mut_split_unchecked(ls, sizes) == Return(sizes)

Mut_split_reversed(ls, sizes) ==
    IF Sum(sizes) # total_out_features(ls)
    THEN Raise("SizeMismatch")
    ELSE Return(Reverse(sizes))

\* split: re-partition strictly by the caller's sizes; the sum is checked first.
split(ls, sizes) ==
    IF Sum(sizes) # total_out_features(ls)
    THEN Raise("SizeMismatch")
    ELSE Return(sizes)

\* merge as a restructuring: split along the computed block sizes.
split_into_blocks(ls, k) == split(ls, compute_out_features_list(ls, k))

PCall(op, k, argsum, out, rt) ==
    [op |-> op, k |-> k, argsum |-> argsum, raised |-> out.raised,
     exc |-> out.exc, ret |-> out.value, roundtrip |-> rt]

ParIdle ==
    /\ layers = <<>>
    /\ p_call = PCall("idle", 0, 0, Return(<<>>), FALSE)
    /\ p_orig = <<>>

\* HBPParallel(layers) / HBPParallel.from_module(linear)
ParInit ==
    /\ layers \in { s \in SizeLists : Sum(s) <= MaxFeatures }
    /\ p_call = PCall("init", 0, 0, Return(<<>>), FALSE)
    /\ p_orig = <<>>

ComputeOutFeaturesList(k) ==
    /\ p_call' = PCall("list", k, 0, Return(compute_out_features_list(layers, k)), FALSE)
    /\ p_orig' = <<>>
    /\ UNCHANGED <<layers, stratVars, convVars, extVars>>

Merge(k) ==
    LET out == split_into_blocks(layers, k)
    IN  /\ p_call' = PCall("merge", k, 0, out, FALSE)
        /\ layers' = IF out.raised THEN layers ELSE out.value
        /\ p_orig' = layers
        /\ UNCHANGED <<stratVars, convVars, extVars>>

Split(sizes) ==
    LET out == split(layers, sizes)
        rt  == p_call.op = "merge" /\ ~p_call.raised /\ sizes = p_orig
    IN  /\ p_call' = PCall("split", 0, Sum(sizes), out, rt)
        /\ layers' = IF out.raised THEN layers ELSE out.value
        /\ p_orig' = IF rt THEN p_orig ELSE <<>>
        /\ UNCHANGED <<stratVars, convVars, extVars>>

ParNext ==
    \/ \E k \in 1..MaxBlocks : ComputeOutFeaturesList(k)
    \/ \E k \in 1..MaxBlocks : Merge(k)
    \/ \E sizes \in SizeLists : Split(sizes)

(***************************************************************************)
(* Tensors: a shape and the contiguous row-major data, as torch keeps them *)
(***************************************************************************)
RECURSIVE Numel(_)
Numel(dims) == IF dims = <<>> THEN 1 ELSE Head(dims) * Numel(Tail(dims))

\* f[1] + ... + f[n]
RECURSIVE SumTo(_, _)
SumTo(f, n) == IF n = 0 THEN 0 ELSE f[n] + SumTo(f, n - 1)

Tensor(dims, data) == [dims |-> dims, data |-> data]

\* The tensor of a shape whose entry at 0-based offset k is f[k].
Build(dims, f) == Tensor(dims, [k \in 1..Numel(dims) |-> f[k - 1]] \o <<>>)

\* No such attribute / no tensor.
Absent == Tensor(<<>>, <<>>)

\* tensor.sum(axis), axis counted from 0: the entries that differ only in that
\* axis are added up.
T_sum(t, axis) ==
    LET n     == t.dims[axis + 1]
        inner == Numel(SubSeq(t.dims, axis + 2, Len(t.dims)))
        dims  == SubSeq(t.dims, 1, axis) \o SubSeq(t.dims, axis + 2, Len(t.dims))
    IN  Build(dims,
              [k \in 0..(Numel(dims) - 1) |->
                  SumTo([a \in 1..n |->
                            t.data[(k \div inner) * n * inner + (a - 1) * inner
                                   + (k % inner) + 1]], n)])

\* tensor ** 2
T_pow2(t) == Tensor(t.dims, [k \in DOMAIN t.data |-> t.data[k] * t.data[k]] \o <<>>)

\* tensor.view(*dims): the same data under another shape; one size may be -1
T_view(t, dims) ==
    LET known == Numel([k \in DOMAIN dims |-> IF dims[k] = -1 THEN 1 ELSE dims[k]] \o <<>>)
    IN  Tensor([k \in DOMAIN dims |->
                   IF dims[k] = -1 THEN Numel(t.dims) \div known ELSE dims[k]] \o <<>>,
               t.data)

\* Entry [a, b, c] (counted from 0) of a 3-dimensional tensor.
At3(t, a, b, c) == t.data[(a * t.dims[2] + b) * t.dims[3] + c + 1]

\* Entry [a, b, c, d] (counted from 0) of a 4-dimensional tensor.
At4(t, a, b, c, d) == t.data[((a * t.dims[2] + b) * t.dims[3] + c) * t.dims[4] + d + 1]

\* einsum('blj,bkj->bkl', (A, B))
einsum_blj_bkj_bkl(A, B) ==
    LET K == B.dims[2]
        L == A.dims[2]
        J == A.dims[3]
    IN  Build(<<A.dims[1], K, L>>,
              [i \in 0..(A.dims[1] * K * L - 1) |->
                  LET b == i \div (K * L)
                      k == (i \div L) % K
                      l == i % L
                  IN  SumTo([j \in 1..J |-> At3(A, b, l, j - 1) * At3(B, b, k, j - 1)], J)])

\* einsum('bml,bkl->bmk', (A, B))
einsum_bml_bkl_bmk(A, B) ==
    LET M == A.dims[2]
        K == B.dims[2]
        L == A.dims[3]
    IN  Build(<<A.dims[1], M, K>>,
              [i \in 0..(A.dims[1] * M * K - 1) |->
                  LET b == i \div (M * K)
                      m == (i \div K) % M
                      k == i % K
                  IN  SumTo([l \in 1..L |-> At3(A, b, m, l - 1) * At3(B, b, k, l - 1)], L)])

(***************************************************************************)
(* Conv2d: construction                                                    *)
(***************************************************************************)
\* Conv2d(in_channels=1, out_channels=2, kernel_size=(1, 2)); the rest are the
\* defaults of torch.nn.Conv2d.
ConvArgs ==
    [in_channels |-> 1, out_channels |-> 2, kernel_size |-> <<1, 2>>,
     stride |-> <<1, 1>>, padding |-> <<0, 0>>, dilation |-> <<1, 1>>]

\* Spatial size of the inputs fed to the layer.
InputHW == <<1, 3>>

\* Output size of one spatial axis (1 or 2) of a convolution/unfold.
OutSize(cfg, n, axis) ==
    (n + 2 * cfg.padding[axis]
       - cfg.dilation[axis] * (cfg.kernel_size[axis] - 1) - 1) \div cfg.stride[axis] + 1

\* self.unfold = torch.nn.Unfold(kernel_size, dilation, padding, stride), applied:
\* (B, C, H, W) -> (B, C * kx * ky, L), a column per receptive field; what
\* falls into the padding is 0.
unfold(cfg, x) ==
    LET kx == cfg.kernel_size[1]
        ky == cfg.kernel_size[2]
        H  == x.dims[3]
        W  == x.dims[4]
        Wo == OutSize(cfg, W, 2)
        L  == OutSize(cfg, H, 1) * Wo
        P  == x.dims[2] * kx * ky
    IN  Build(<<x.dims[1], P, L>>,
              [i \in 0..(x.dims[1] * P * L - 1) |->
                  LET b  == i \div (P * L)
                      p  == (i \div L) % P
                      j  == i % L
                      c  == p \div (kx * ky)
                      di == (p % (kx * ky)) \div ky
                      dj == p % ky
                      ii == (j \div Wo) * cfg.stride[1] - cfg.padding[1]
                               + di * cfg.dilation[1]
                      jj == (j % Wo) * cfg.stride[2] - cfg.padding[2]
                               + dj * cfg.dilation[2]
                  IN  IF ii >= 0 /\ ii < H /\ jj >= 0 /\ jj < W
                      THEN At4(x, b, c, ii, jj)
                      ELSE 0])

\* A parameter and the artifacts attached to it.
Param(rg, size) ==
    [exists |-> TRUE, requires_grad |-> rg, size |-> size,
     grad_batch |-> Absent, sum_grad_squared |-> Absent]

\* bias=False: self.bias is None
NoParam ==
    [exists |-> FALSE, requires_grad |-> FALSE, size |-> <<>>,
     grad_batch |-> Absent, sum_grad_squared |-> Absent]

WeightSize(cfg) ==
    <<cfg.out_channels, cfg.in_channels, cfg.kernel_size[1], cfg.kernel_size[2]>>
BiasSize(cfg) == <<cfg.out_channels>>

(***************************************************************************)
(* Conv2d: per-example gradients and sums of their squares                 *)
(***************************************************************************)
_compute_bias_grad_batch(grad_output) == T_sum(T_sum(grad_output, 3), 2)

_compute_weight_grad_batch(cfg, w, x, grad_output) ==
    LET batch_size  == grad_output.dims[1]
        dE_dw_shape == <<batch_size>> \o w.size
        X           == unfold(cfg, x)
        dE_dY       == T_view(grad_output, <<batch_size, cfg.out_channels, -1>>)
        dE_dW       == einsum_blj_bkj_bkl(X, dE_dY)
    IN  T_view(dE_dW, dE_dw_shape)

_compute_weight_sgs(cfg, w, x, grad_output) ==
    LET X     == unfold(cfg, x)
        dE_dY == T_view(grad_output, <<grad_output.dims[1], cfg.out_channels, -1>>)
    IN  T_view(T_sum(T_pow2(einsum_bml_bkl_bmk(dE_dY, X)), 0), w.size)

Mut_compute_bias_sgs(grad_output) ==
    T_pow2(T_sum(T_sum(T_sum(grad_output, 3), 2), 0))

_compute_bias_sgs(grad_output) ==
    T_sum(T_pow2(T_sum(T_sum(grad_output, 3), 2)), 0)

\* A module's parameters as the methods below read and write them.
Params(w, b) == [weight |-> w, bias |-> b]

compute_grad_batch(cfg, p, x, grad_output) ==
    LET b1 == IF p.bias.exists /\ p.bias.requires_grad
              THEN [p.bias EXCEPT !.grad_batch = _compute_bias_grad_batch(grad_output)]
              ELSE p.bias
        w1 == IF p.weight.requires_grad
              THEN [p.weight EXCEPT !.grad_batch =
                       _compute_weight_grad_batch(cfg, p.weight, x, grad_output)]
              ELSE p.weight
    IN  Params(w1, b1)

Mut_compute_sum_grad_squared(cfg, p, x, grad_output) ==
    LET b1 == IF p.bias.exists
              THEN [p.bias EXCEPT !.sum_grad_squared = _compute_bias_sgs(grad_output)]
              ELSE p.bias
        w1 == IF p.weight.requires_grad
              THEN [p.weight EXCEPT !.sum_grad_squared =
                       _compute_weight_sgs(cfg, p.weight, x, grad_output)]
              ELSE p.weight
    IN  Params(w1, b1)

compute_sum_grad_squared(cfg, p, x, grad_output) ==
    LET b1 == IF p.bias.exists /\ p.bias.requires_grad
              THEN [p.bias EXCEPT !.sum_grad_squared = _compute_bias_sgs(grad_output)]
              ELSE p.bias
        w1 == IF p.weight.requires_grad
              THEN [p.weight EXCEPT !.sum_grad_squared =
                       _compute_weight_sgs(cfg, p.weight, x, grad_output)]
              ELSE p.weight
    IN  Params(w1, b1)

\* `del param.attr`: AttributeError if the parameter is None or carries no
\* such attribute, otherwise the attribute is gone.
del_attr(param, attr) ==
    IF ~param.exists
    THEN [raised |-> TRUE, exc |-> "AttributeError", param |-> param]
    ELSE IF attr = "grad_batch"
    THEN IF param.grad_batch = Absent
         THEN [raised |-> TRUE, exc |-> "AttributeError", param |-> param]
         ELSE [raised |-> FALSE, exc |-> None,
               param |-> [param EXCEPT !.grad_batch = Absent]]
    ELSE IF param.sum_grad_squared = Absent
         THEN [raised |-> TRUE, exc |-> "AttributeError", param |-> param]
         ELSE [raised |-> FALSE, exc |-> None,
               param |-> [param EXCEPT !.sum_grad_squared = Absent]]

Mut_DelAttr(param, attr) ==
    LET out == del_attr(param, attr)
    IN  IF out.raised /\ out.exc = "KeyError"
        THEN [raised |-> FALSE, exc |-> None, param |-> param]
        ELSE out

\* try: del param.attr / except AttributeError: pass
DelAttr(param, attr) ==
    LET out == del_attr(param, attr)
    IN  IF out.raised /\ out.exc = "AttributeError"
        THEN [raised |-> FALSE, exc |-> None, param |-> param]
        ELSE out

\* The two try statements of a clear method, one after the other.
clear_attr(p, attr) ==
    LET w == DelAttr(p.weight, attr)
        b == DelAttr(p.bias, attr)
    IN  IF w.raised THEN [raised |-> TRUE, exc |-> w.exc, params |-> p]
        ELSE [raised |-> b.raised, exc |-> b.exc, params |-> Params(w.param, b.param)]

clear_grad_batch(p) == clear_attr(p, "grad_batch")

clear_sum_grad_squared(p) == clear_attr(p, "sum_grad_squared")

(***************************************************************************)
(* Tensor objects and the modules that reference them                      *)
(***************************************************************************)
NumModules       == 2    \* Conv2d layers of the network
NumCallerTensors == 2    \* tensors the caller keeps hold of between calls
MaxArgs          == 2    \* longest tuple handed to a hook

Modules   == 1..NumModules
CallerIds == 1..NumCallerTensors
ObjIds    == 1..(NumCallerTensors + NumModules + MaxArgs + 1)

Free    == [live |-> FALSE, val |-> Absent]
Cell(v) == [live |-> TRUE, val |-> v]

\* A fresh object: the least identity that no live object has.
Alloc(h) == CHOOSE i \in ObjIds \ CallerIds :
               /\ ~h[i].live
               /\ \A j \in ObjIds \ CallerIds : ~h[j].live => i <= j

\* Dropping a reference: an object nobody holds any more is collected.
Release(h, inp, id) ==
    IF id \in ObjIds \ CallerIds /\ \A m \in Modules : inp[m] # id
    THEN [h EXCEPT ![id] = Free]
    ELSE h

Mut_store_input_noclone(h, inp, m, args) ==
    IF ~(Len(args) = 1)
    THEN [raised |-> TRUE, exc |-> "ValueError", heap |-> h, input |-> inp]
    ELSE IF ~(Len(h[args[1]].val.dims) = 4)
    THEN [raised |-> TRUE, exc |-> "ValueError", heap |-> h, input |-> inp]
    ELSE LET inp1 == [inp EXCEPT ![m] = args[1]]
         IN  [raised |-> FALSE, exc |-> None,
              heap |-> IF inp[m] = 0 THEN h ELSE Release(h, inp1, inp[m]),
              input |-> inp1]

\* Forward pre-hook. args: the identities of the tensors of the input tuple.
store_input(h, inp, m, args) ==
    IF ~(Len(args) = 1)
    THEN [raised |-> TRUE, exc |-> "ValueError", heap |-> h, input |-> inp]
    ELSE IF ~(Len(h[args[1]].val.dims) = 4)
    THEN [raised |-> TRUE, exc |-> "ValueError", heap |-> h, input |-> inp]
    ELSE LET new  == Alloc(h)                                  \* .clone().detach()
             h1   == [h EXCEPT ![new] = Cell(h[args[1]].val)]
             inp1 == [inp EXCEPT ![m] = new]                   \* register_buffer
         IN  [raised |-> FALSE, exc |-> None,
              heap |-> IF inp[m] = 0 THEN h1 ELSE Release(h1, inp1, inp[m]),
              input |-> inp1]

\* Extensions a caller can switch on.
BATCH_GRAD       == "BATCH_GRAD"
SUM_GRAD_SQUARED == "SUM_GRAD_SQUARED"
Extensions == {BATCH_GRAD, SUM_GRAD_SQUARED}

CTX_is_active(active, ext) == ext \in active

Mut_compute_first_order_info(cfg, active, p, x, grad_output) ==
    LET grad_out == grad_output[1]
        p1 == IF Len(grad_output) >= 1 /\ CTX_is_active(active, BATCH_GRAD)
              THEN compute_grad_batch(cfg, p, x, grad_out) ELSE p
        p2 == IF Len(grad_output) >= 1 /\ CTX_is_active(active, SUM_GRAD_SQUARED)
              THEN compute_sum_grad_squared(cfg, p1, x, grad_out) ELSE p1
    IN  IF ~(Len(grad_output) = 1)
        THEN [raised |-> TRUE, exc |-> "ValueError", params |-> p2]
        ELSE [raised |-> FALSE, exc |-> None, params |-> p2]

Mut_compute_first_order_info_elif(cfg, active, p, x, grad_output) ==
    IF ~(Len(grad_output) = 1)
    THEN [raised |-> TRUE, exc |-> "ValueError", params |-> p]
    ELSE LET grad_out == grad_output[1]
         IN  [raised |-> FALSE, exc |-> None,
              params |-> IF CTX_is_active(active, BATCH_GRAD)
                         THEN compute_grad_batch(cfg, p, x, grad_out)
                         ELSE IF CTX_is_active(active, SUM_GRAD_SQUARED)
                         THEN compute_sum_grad_squared(cfg, p, x, grad_out)
                         ELSE p]

\* Backward hook. grad_output: the tuple of output gradients; x: self.input.
compute_first_order_info(cfg, active, p, x, grad_output) ==
    IF ~(Len(grad_output) = 1)
    THEN [raised |-> TRUE, exc |-> "ValueError", params |-> p]
    ELSE LET grad_out == grad_output[1]                        \* .clone().detach()
             p1 == IF CTX_is_active(active, BATCH_GRAD)
                   THEN compute_grad_batch(cfg, p, x, grad_out) ELSE p
             p2 == IF CTX_is_active(active, SUM_GRAD_SQUARED)
                   THEN compute_sum_grad_squared(cfg, p1, x, grad_out) ELSE p1
         IN  [raised |-> FALSE, exc |-> None, params |-> p2]

\* The artifacts a backward hook call can attach: (parameter, attribute).
Artifacts == {"weight", "bias"} \X {"grad_batch", "sum_grad_squared"}

ExtensionOf(a) == IF a[2] = "grad_batch" THEN BATCH_GRAD ELSE SUM_GRAD_SQUARED

ParamOf(p, a) == IF a[1] = "weight" THEN p.weight ELSE p.bias

\* getattr(param, attr), Absent if there is no such parameter or attribute.
ArtifactOf(p, a) ==
    IF ~ParamOf(p, a).exists THEN Absent
    ELSE IF a[2] = "grad_batch" THEN ParamOf(p, a).grad_batch
    ELSE ParamOf(p, a).sum_grad_squared

\* The attributes a call of the backward hook assigns: those it leaves on
\* parameters that carried none before the call.
Written(cfg, active, p, x, grad_output) ==
    LET bare == clear_sum_grad_squared(clear_grad_batch(p).params).params
        out  == compute_first_order_info(cfg, active, bare, x, grad_output)
    IN  { a \in Artifacts : ArtifactOf(out.params, a) # Absent }

\* No backward hook call yet.
NoPass == [ran |-> FALSE, raised |-> FALSE, active |-> {}, written |-> {}]

(***************************************************************************)
(* Conv2d: state and calls                                                 *)
(***************************************************************************)
CCall(op, m, nargs, rank, raised, exc) ==
    [op |-> op, module |-> m, nargs |-> nargs, rank |-> rank,
     raised |-> raised, exc |-> exc]

\* Rank of the first tensor of a tuple of values (0 for the empty tuple).
RankOfFirst(xs) == IF xs = <<>> THEN 0 ELSE Len(xs[1].dims)

\* The value a module's buffer `input` holds (Absent before the first forward).
CachedInput(m) == IF input[m] = 0 THEN Absent ELSE heap[input[m]].val

ParamsOf(m) == Params(weight[m], bias[m])

ConvIdle ==
    /\ heap = [i \in ObjIds |-> Free]
    /\ input = [m \in Modules |-> 0]
    /\ weight = [m \in Modules |-> Param(TRUE, WeightSize(ConvArgs))]
    /\ bias = [m \in Modules |-> Param(TRUE, BiasSize(ConvArgs))]
    /\ ctx_active = {}
    /\ c_call = CCall("idle", 0, 0, 0, FALSE, None)
    /\ accepted = [m \in Modules |-> Absent]
    /\ last_pass = [m \in Modules |-> NoPass]
    /\ pc = "free"

\* The caller's tensors are put on the heap, the hook runs, and the caller drops them.
RECURSIVE PutAll(_, _)
PutAll(h, xs) ==
    IF xs = <<>> THEN [heap |-> h, ids |-> <<>>]
    ELSE LET id   == Alloc(h)
             rest == PutAll([h EXCEPT ![id] = Cell(Head(xs))], Tail(xs))
         IN  [heap |-> rest.heap, ids |-> <<id>> \o rest.ids]

RECURSIVE ReleaseAll(_, _, _)
ReleaseAll(h, inp, ids) ==
    IF ids = <<>> THEN h
    ELSE ReleaseAll(Release(h, inp, Head(ids)), inp, Tail(ids))

\* module(x) with tensors made for the call: the forward pre-hook on fresh tensors.
ForwardFresh(m, xs) ==
    LET put == PutAll(heap, xs)
        out == store_input(put.heap, input, m, put.ids)
    IN  /\ heap' = ReleaseAll(out.heap, out.input, put.ids)
        /\ input' = out.input
        /\ accepted' = IF out.raised THEN accepted ELSE [accepted EXCEPT ![m] = xs[1]]
        /\ c_call' = CCall("forward", m, Len(xs), RankOfFirst(xs), out.raised, out.exc)
        /\ UNCHANGED <<weight, bias, ctx_active, last_pass, stratVars, parVars, extVars>>

\* module(x) with tensors the caller keeps: the forward pre-hook on held tensors.
ForwardHeld(m, ids) ==
    LET out == store_input(heap, input, m, ids)
    IN  /\ heap' = out.heap
        /\ input' = out.input
        /\ accepted' = IF out.raised THEN accepted
                       ELSE [accepted EXCEPT ![m] = heap[ids[1]].val]
        /\ c_call' = CCall("forward", m, Len(ids),
                           IF ids = <<>> THEN 0 ELSE Len(heap[ids[1]].val.dims),
                           out.raised, out.exc)
        /\ UNCHANGED <<weight, bias, ctx_active, last_pass, stratVars, parVars, extVars>>

\* The caller changes one of its tensors in place.
MutateTensor(t, v) ==
    /\ heap[t].live /\ heap[t].val # v
    /\ heap' = [heap EXCEPT ![t] = Cell(v)]
    /\ c_call' = CCall("mutate", 0, 0, 0, FALSE, None)
    /\ UNCHANGED <<input, weight, bias, ctx_active, accepted, last_pass, stratVars, parVars, extVars>>

\* The engine runs the backward hook of a module that has been through a forward
\* pass; the gradients have the batch size of the cached input.
Backward(m, gs) ==
    /\ input[m] # 0
    /\ \A i \in DOMAIN gs : gs[i].dims[1] = CachedInput(m).dims[1]
    /\ LET out == compute_first_order_info(ConvArgs, ctx_active, ParamsOf(m),
                                           CachedInput(m), gs)
       IN  /\ weight' = [weight EXCEPT ![m] = out.params.weight]
           /\ bias' = [bias EXCEPT ![m] = out.params.bias]
           /\ c_call' = CCall("backward", m, Len(gs), RankOfFirst(gs), out.raised, out.exc)
           /\ last_pass' = [last_pass EXCEPT ![m] =
                   [ran |-> TRUE, raised |-> out.raised, active |-> ctx_active,
                    written |-> Written(ConvArgs, ctx_active, ParamsOf(m),
                                        CachedInput(m), gs)]]
    /\ UNCHANGED <<heap, input, ctx_active, accepted, stratVars, parVars, extVars>>

ClearGradBatch(m) ==
    LET out == clear_grad_batch(ParamsOf(m))
    IN  /\ weight' = [weight EXCEPT ![m] = out.params.weight]
        /\ bias' = [bias EXCEPT ![m] = out.params.bias]
        /\ c_call' = CCall("clear_grad_batch", m, 0, 0, out.raised, out.exc)
        /\ UNCHANGED <<heap, input, ctx_active, accepted, last_pass, stratVars, parVars, extVars>>

ClearSumGradSquared(m) ==
    LET out == clear_sum_grad_squared(ParamsOf(m))
    IN  /\ weight' = [weight EXCEPT ![m] = out.params.weight]
        /\ bias' = [bias EXCEPT ![m] = out.params.bias]
        /\ c_call' = CCall("clear_sum_grad_squared", m, 0, 0, out.raised, out.exc)
        /\ UNCHANGED <<heap, input, ctx_active, accepted, last_pass, stratVars, parVars, extVars>>

\* The caller requests another set of extensions.
SetActive(S) ==
    /\ S # ctx_active
    /\ ctx_active' = S
    /\ c_call' = CCall("set_active", 0, 0, 0, FALSE, None)
    /\ UNCHANGED <<heap, input, weight, bias, accepted, last_pass, stratVars, parVars, extVars>>

(***************************************************************************)
(* Extension context (CTX) and the ReLU hook of the diagonal-Hessian       *)
(* extension                                                               *)
(***************************************************************************)
NumTraversals == 2     \* backward traversals that can be under way at once

Traversals == 1..NumTraversals

DIAG_H == "DIAG_H"

\* The one CTX object of the process, as the hooks see it.
Ctx(sqrt_h, signs) == [sqrt_h |-> sqrt_h, signs |-> signs]

\* A ReLU module as the hook reads it: module.input0 and its requires_grad.
ReLU(val, rg) == [input0 |-> [val |-> val, requires_grad |-> rg]]

\* jmp.relu.jac_mat_prod: the Jacobian of ReLU is diagonal, 1 where the input
\* is positive and 0 elsewhere.
jac_mat_prod(module, grad_input, grad_output, mat) ==
    [i \in DOMAIN mat |-> IF module.input0.val[i] > 0 THEN mat[i] ELSE 0]

\* DiagHReLU.backpropagate_sqrt_h: every factor, in place, becomes its
\* Jacobian product; the list is assigned back to CTX.
backpropagate_sqrt_h(ctx, module, grad_input, grad_output, sqrt_h_outs, sqrt_h_outs_signs) ==
    [ctx EXCEPT !.sqrt_h =
        [i \in DOMAIN sqrt_h_outs |->
            jac_mat_prod(module, grad_input, grad_output, sqrt_h_outs[i])]]

\* DiagHReLU.apply: inside the method the bare name backpropagate_sqrt_h is
\* looked up in the function's and the module's namespace, where nothing of
\* that name is bound (it is an attribute of the class): NameError.
apply(ctx, module, grad_input, grad_output) ==
    LET sqrt_h_outs       == ctx.sqrt_h
        sqrt_h_outs_signs == ctx.signs
    IN  IF module.input0.requires_grad
        THEN [raised |-> TRUE, exc |-> "NameError", ctx |-> ctx]
        ELSE [raised |-> FALSE, exc |-> None, ctx |-> ctx]

NoRead == [hook |-> "none", owner |-> 0]

RCall(op, t, module, before, raised, exc) ==
    [op |-> op, traversal |-> t, module |-> module, before |-> before,
     raised |-> raised, exc |-> exc]

CtxIdle ==
    /\ ctx_sqrt_h = <<>>
    /\ ctx_signs = <<>>
    /\ ctx_owner = 0
    /\ t_pc = [t \in Traversals |-> "idle"]
    /\ t_read = [t \in Traversals |-> NoRead]
    /\ r_call = RCall("idle", 0, ReLU(<<>>, FALSE), Ctx(<<>>, <<>>), FALSE, None)

\* A traversal starts: the context is reset to its extensions and to the
\* factors of its loss.
BeginTraversal(t, setting) ==
    /\ t_pc[t] # "running"
    /\ t_pc' = [t_pc EXCEPT ![t] = "running"]
    /\ ctx_active' = setting.active
    /\ ctx_sqrt_h' = setting.sqrt_h
    /\ ctx_signs' = setting.signs
    /\ ctx_owner' = t
    /\ t_read' = [t_read EXCEPT ![t] = NoRead]
    /\ UNCHANGED <<heap, input, weight, bias, c_call, accepted, last_pass, pc,
                   r_call, lossVars, hbpVars, stratVars, parVars>>

\* A traversal has gone through all its layers.
EndTraversal(t) ==
    /\ t_pc[t] = "running"
    /\ t_pc' = [t_pc EXCEPT ![t] = "idle"]
    /\ UNCHANGED <<ctx_sqrt_h, ctx_signs, ctx_owner, t_read, r_call,
                   lossVars, hbpVars, convVars, stratVars, parVars>>

\* The engine of traversal t reaches a ReLU layer and runs the hook of the
\* diagonal-Hessian extension, if CTX says it is active.
ReLUHook(t, module) ==
    /\ t_pc[t] = "running"
    /\ CTX_is_active(ctx_active, DIAG_H)
    /\ LET before == Ctx(ctx_sqrt_h, ctx_signs)
           out    == apply(before, module, None, None)
       IN  /\ ctx_sqrt_h' = out.ctx.sqrt_h
           /\ ctx_signs' = out.ctx.signs
           /\ r_call' = RCall("apply", t, module, before, out.raised, out.exc)
           /\ t_pc' = IF out.raised THEN [t_pc EXCEPT ![t] = "failed"] ELSE t_pc
    /\ t_read' = [t_read EXCEPT ![t] =
                     [hook |-> "relu", owner |-> ctx_owner]]
    /\ UNCHANGED <<ctx_owner, lossVars, hbpVars, convVars, stratVars, parVars>>

\* The engine of traversal t reaches the Conv2d layer and runs its backward hook.
ConvHook(t, gs) ==
    /\ t_pc[t] = "running"
    /\ input[1] # 0
    /\ \A i \in DOMAIN gs : gs[i].dims[1] = CachedInput(1).dims[1]
    /\ LET out == compute_first_order_info(ConvArgs, ctx_active, ParamsOf(1),
                                           CachedInput(1), gs)
       IN  /\ weight' = [weight EXCEPT ![1] = out.params.weight]
           /\ bias' = [bias EXCEPT ![1] = out.params.bias]
           /\ c_call' = CCall("backward", 1, Len(gs), RankOfFirst(gs), out.raised, out.exc)
           /\ last_pass' = [last_pass EXCEPT ![1] =
                   [ran |-> TRUE, raised |-> out.raised, active |-> ctx_active,
                    written |-> Written(ConvArgs, ctx_active, ParamsOf(1),
                                        CachedInput(1), gs)]]
    /\ t_read' = [t_read EXCEPT ![t] =
                     [hook |-> "conv", owner |-> ctx_owner]]
    /\ UNCHANGED <<heap, input, ctx_active, accepted, pc,
                   ctx_sqrt_h, ctx_signs, ctx_owner, t_pc, r_call,
                   lossVars, hbpVars, stratVars, parVars>>

(***************************************************************************)
(* Loss derivatives: sum_hessian, sqrt_hessian, sqrt_hessian_sampled       *)
(***************************************************************************)
NumLossSettings == 4   \* loss settings a test problem is made from
MaxSamples      == 3   \* largest number of Monte-Carlo samples asked for
MaxLossBatch    == 2   \* largest batch of a loss test problem

\* A test problem on a loss layer: the setting it is made from, its batch size
\* and whether the loss has a Hessian at its input.
LossProblem(id, batch, defined) ==
    [id |-> id, batch |-> batch, hessian_defined |-> defined]

\* make_test_problems(SETTINGS), the losses among them
LOSS_PROBLEMS ==
    { LossProblem(id, b, TRUE) : id \in 1..NumLossSettings, b \in 1..MaxLossBatch }

\* make_test_problems(LOSS_FAIL_SETTINGS): "second-order does not make sense"
LOSS_FAIL_PROBLEMS ==
    { LossProblem(id, b, FALSE) : id \in 1..NumLossSettings, b \in 1..MaxLossBatch }

\* The curvature a derivative returns, as far as the callers tell them apart.
Curvature(kind, problem, samples) ==
    [kind |-> kind, id |-> problem.id, batch |-> problem.batch, samples |-> samples]

sum_hessian(problem) ==
    IF ~problem.hessian_defined THEN Raise("ValueError")
    ELSE Return(Curvature("sum_hessian", problem, 0))

sqrt_hessian(problem) ==
    IF ~problem.hessian_defined THEN Raise("ValueError")
    ELSE Return(Curvature("sqrt_hessian", problem, 0))

sqrt_hessian_sampled(problem, mc_samples) ==
    IF ~problem.hessian_defined THEN Raise("ValueError")
    ELSE Return(Curvature("sqrt_hessian_sampled", problem, mc_samples))

\* BackpackDerivatives(problem).input_hessian_via_sqrt_hessian(mc_samples):
\* mc_samples is <<>> for Python's None and <<n>> for n samples.
input_hessian_via_sqrt_hessian(problem, mc_samples) ==
    IF mc_samples = <<>> THEN sqrt_hessian(problem)
    ELSE sqrt_hessian_sampled(problem, mc_samples[1])

\* The three tests on LOSS_PROBLEMS: an exception of the derivative ends the
\* test with that exception.
test_sqrt_hessian_squared_equals_hessian(problem) ==
    input_hessian_via_sqrt_hessian(problem, <<>>)

test_sqrt_hessian_sampled_squared_approximates_hessian(problem, mc_samples) ==
    input_hessian_via_sqrt_hessian(problem, <<mc_samples>>)

test_sum_hessian(problem) == sum_hessian(problem)

\* with pytest.raises(expected): passes if the body raised it, fails if the
\* body raised nothing or something else.
pytest_raises(expected, out) ==
    IF out.raised /\ out.exc = expected THEN "passed" ELSE "failed"

test_sqrt_hessian_should_fail(problem) ==
    pytest_raises("ValueError", test_sqrt_hessian_squared_equals_hessian(problem))

test_sqrt_hessian_sampled_should_fail(problem) ==
    pytest_raises("ValueError",
                  test_sqrt_hessian_sampled_squared_approximates_hessian(problem, MaxSamples))

Mut_test_sum_hessian_should_fail(problem) ==
    pytest_raises("RuntimeError", test_sum_hessian(problem))

test_sum_hessian_should_fail(problem) ==
    pytest_raises("ValueError", test_sum_hessian(problem))

DCall(op, problem, samples, out, calls, outcome) ==
    [op |-> op, problem |-> problem, samples |-> samples, raised |-> out.raised,
     exc |-> out.exc, value |-> out.value, calls |-> calls, outcome |-> outcome]

LossIdle ==
    d_call = DCall("idle", LossProblem(0, 0, FALSE), 0, Return(None), 0, "none")

\* A caller asks a loss layer for a curvature: one call of the derivative.
CallSumHessian(problem) ==
    /\ d_call' = DCall("sum_hessian", problem, 0, sum_hessian(problem), 1, "none")
    /\ UNCHANGED <<ctxVars, hbpVars, convVars, stratVars, parVars>>

CallSqrtHessian(problem) ==
    /\ d_call' = DCall("sqrt_hessian", problem, 0, sqrt_hessian(problem), 1, "none")
    /\ UNCHANGED <<ctxVars, hbpVars, convVars, stratVars, parVars>>

CallSqrtHessianSampled(problem, mc_samples) ==
    /\ d_call' = DCall("sqrt_hessian_sampled", problem, mc_samples,
                       sqrt_hessian_sampled(problem, mc_samples), 1, "none")
    /\ UNCHANGED <<ctxVars, hbpVars, convVars, stratVars, parVars>>

\* pytest runs one of the three tests that expect the failure.
RunShouldFailTest(name, problem) ==
    /\ d_call' = DCall(name, problem, 0, Return(None), 1,
                       IF name = "test_sqrt_hessian_should_fail"
                       THEN test_sqrt_hessian_should_fail(problem)
                       ELSE IF name = "test_sqrt_hessian_sampled_should_fail"
                       THEN test_sqrt_hessian_sampled_should_fail(problem)
                       ELSE test_sum_hessian_should_fail(problem))
    /\ UNCHANGED <<ctxVars, hbpVars, convVars, stratVars, parVars>>

ShouldFailTests ==
    {"test_sqrt_hessian_should_fail", "test_sqrt_hessian_sampled_should_fail",
     "test_sum_hessian_should_fail"}

LossNext ==
    \/ \E problem \in LOSS_PROBLEMS \cup LOSS_FAIL_PROBLEMS : CallSumHessian(problem)
    \/ \E problem \in LOSS_PROBLEMS \cup LOSS_FAIL_PROBLEMS : CallSqrtHessian(problem)
    \/ \E problem \in LOSS_PROBLEMS \cup LOSS_FAIL_PROBLEMS, mc_samples \in 1..MaxSamples :
          CallSqrtHessianSampled(problem, mc_samples)
    \/ \E name \in ShouldFailTests, problem \in LOSS_FAIL_PROBLEMS :
          RunShouldFailTest(name, problem)

(***************************************************************************)
(* HBPParallel: Hessian backpropagation through sibling linear layers      *)
(***************************************************************************)
MaxHbpFeatures == 3    \* largest total_out_features of a composite of linear layers

\* Matrices are sequences of rows.
Dot(u, v) == SumTo([i \in 1..Len(u) |-> u[i] * v[i]], Len(u))

Transpose(M) == [j \in 1..Len(M[1]) |-> [i \in 1..Len(M) |-> M[i][j]]]

MatMul(A, B) ==
    LET Bt == Transpose(B)
    IN  [i \in 1..Len(A) |-> [j \in 1..Len(Bt) |-> Dot(A[i], Bt[j])]]

MatAdd(A, B) == [i \in 1..Len(A) |-> [j \in 1..Len(A[i]) |-> A[i][j] + B[i][j]]]

\* S S^T: the curvature a factor stands for.
Gram(S) == MatMul(S, Transpose(S))

Outer(x) == [i \in 1..Len(x) |-> [j \in 1..Len(x) |-> x[i] * x[j]]]

\* Kronecker product of square matrices: the layout of a Hessian with respect
\* to a weight of shape (out, in), flattened row-major.
Kron(A, B) ==
    LET nb == Len(B)
    IN  [p \in 1..(Len(A) * nb) |-> [q \in 1..(Len(A) * nb) |->
            A[((p - 1) \div nb) + 1][((q - 1) \div nb) + 1]
              * B[((p - 1) % nb) + 1][((q - 1) % nb) + 1]]]

\* The rows (output features) of sibling idx, for siblings of the given sizes.
Offset(sizes, idx) == SumTo(sizes, idx - 1)

Rows(M, sizes, idx) ==
    [i \in 1..sizes[idx] |-> M[Offset(sizes, idx) + i]]

Block(H, sizes, idx) ==
    [i \in 1..sizes[idx] |-> [j \in 1..sizes[idx] |->
        H[Offset(sizes, idx) + i][Offset(sizes, idx) + j]]]

\* HBPLinear.backward_hessian for y = W x + b: the input-side contribution is
\* the Jacobian-transpose product W^T S, the bias Hessian is the output
\* curvature and the weight Hessian its Kronecker product with x x^T.
linear_backward_hessian(W, S, x) ==
    [in_factor |-> MatMul(Transpose(W), S),
     bias_hessian |-> Gram(S),
     weight_hessian |-> Kron(Gram(S), Outer(x))]

RECURSIVE SumOfContributions(_, _)
SumOfContributions(children, n) ==
    IF n = 1 THEN children[1].in_factor
    ELSE MatAdd(SumOfContributions(children, n - 1), children[n].in_factor)

Mut_backward_hessian(sizes, W, S, x) ==
    LET children == [idx \in 1..Len(sizes) |->
                        linear_backward_hessian(Rows(W, sizes, idx), Rows(S, sizes, idx), x)]
        in_factor == children[Len(sizes)].in_factor
    IN  [slices |-> [idx \in 1..Len(sizes) |-> Rows(S, sizes, idx)],
         in_factor |-> in_factor,
         in_hessian |-> Gram(in_factor),
         bias_hessian |-> [idx \in 1..Len(sizes) |-> children[idx].bias_hessian],
         weight_hessian |-> [idx \in 1..Len(sizes) |-> children[idx].weight_hessian]]

\* HBPParallel.backward_hessian: every sibling gets the rows of the upstream
\* curvature factor that belong to its output features; the composite
\* forwards the sum of the siblings' input-side contributions.
backward_hessian(sizes, W, S, x) ==
    LET children == [idx \in 1..Len(sizes) |->
                        linear_backward_hessian(Rows(W, sizes, idx), Rows(S, sizes, idx), x)]
        in_factor == SumOfContributions(children, Len(sizes))
    IN  [slices |-> [idx \in 1..Len(sizes) |-> Rows(S, sizes, idx)],
         in_factor |-> in_factor,
         in_hessian |-> Gram(in_factor),
         bias_hessian |-> [idx \in 1..Len(sizes) |-> children[idx].bias_hessian],
         weight_hessian |-> [idx \in 1..Len(sizes) |-> children[idx].weight_hessian]]

\* exact_hessian(loss, [input]) for a loss with curvature H at the output of
\* the stacked linear layers: W^T H W.
brute_force_input_hessian(W, H) == MatMul(MatMul(Transpose(W), H), W)

\* exact_hessian(loss, [layer.get_submodule(layer_idx).bias / .weight])
brute_force_hessian(sizes, layer_idx, which, H, x) ==
    IF which = "bias" THEN Block(H, sizes, layer_idx)
    ELSE Kron(Block(H, sizes, layer_idx), Outer(x))

\* Factors of upstream curvatures on T output features. The first stands for
\* the test's example_loss, whose Hessian is 2 * eye(T); the others couple
\* the output features of different siblings.
HbpFactors(T) ==
    { [i \in 1..T |-> [j \in 1..(2 * T) |-> IF j = i \/ j = T + i THEN 1 ELSE 0]],
      [i \in 1..T |-> <<1>>],
      [i \in 1..T |-> <<i, 1>>] }

HbpInputs == { <<1, 2>>, <<-1, 1>> }

\* Weight rows of length in_features, one per output feature.
HbpWeightRows == { <<1, -1>>, <<2, 1>> }

HbpWeights(T) == [1..T -> HbpWeightRows]

HbpSizeLists ==
    { sizes \in UNION { [1..n -> 1..MaxHbpFeatures] : n \in 1..MaxHbpFeatures } :
        Sum(sizes) <= MaxHbpFeatures }

HbpAllFactors == UNION { HbpFactors(T) : T \in 1..MaxHbpFeatures }

\* create_layer(): sibling linear layers with some weights.
HbpInit ==
    /\ layers \in HbpSizeLists
    /\ p_call = PCall("init", 0, 0, Return(<<>>), FALSE)
    /\ p_orig = <<>>
    /\ h_weight \in HbpWeights(Sum(layers))
    /\ h_call = [op |-> "idle"]

\* layer.backward_hessian(out_h) after a forward pass on x.
BackwardHessian(S, x) ==
    /\ Len(S) = total_out_features(layers)
    /\ h_call' = [op |-> "backward_hessian", sizes |-> layers, factor |-> S, input |-> x,
                  out |-> backward_hessian(layers, h_weight, S, x)]
    /\ UNCHANGED <<h_weight, ctxVars, lossVars, parVars, convVars, stratVars>>

\* A restructuring of the composite between two backpropagations.
HbpSplit(sizes) ==
    /\ Sum(sizes) = total_out_features(layers)
    /\ Split(sizes)

HbpNext ==
    \/ \E S \in HbpAllFactors : \E x \in HbpInputs : BackwardHessian(S, x)
    \/ \E k \in 1..MaxHbpFeatures : Merge(k)
    \/ \E sizes \in HbpSizeLists : HbpSplit(sizes)

\* Nothing of the Hessian backpropagation through a composite is under way.
HbpIdle ==
    /\ h_weight = <<>>
    /\ h_call = [op |-> "idle"]

ExtIdle == CtxIdle /\ LossIdle /\ HbpIdle

(***************************************************************************)
(* Inputs                                                                  *)
(***************************************************************************)
MaxBatch == 2          \* largest batch size of the statistics cycle

InputDims(b) == <<b, ConvArgs.in_channels, InputHW[1], InputHW[2]>>
GradDims(b) ==
    <<b, ConvArgs.out_channels,
      OutSize(ConvArgs, InputHW[1], 1), OutSize(ConvArgs, InputHW[2], 2)>>

\* Two batches of two examples, and a tensor without a batch axis.
X4a == Tensor(InputDims(2), <<1, 2, 1, 2, 2, 1>>)
X4b == Tensor(InputDims(2), <<2, 1, 2, 1, 1, 2>>)
X3  == Tensor(<<1, 1, 3>>, <<1, 2, 1>>)
Ga  == Tensor(GradDims(2), <<1, -1, 1, 1, -1, 1, 1, 1>>)
Gb  == Tensor(GradDims(2), <<1, 1, -1, 1, 1, -1, -1, -1>>)

FwdValues       == {X4a, X4b, X3}
ConvInputTuples == {<<>>, <<X4a>>, <<X3>>, <<X4a, X4b>>}
ConvGradTuples  == {<<>>, <<Ga>>, <<Gb>>, <<Ga, Gb>>}

\* Examples a batch is made of: the entries of one input (C * H * W of them)
\* and of one output gradient (O * Ho * Wo of them).
InExamples   == {<<1, 2, 1>>, <<2, 1, 2>>, <<0, 1, 3>>, <<1, 1, 1>>}
GradExamples == {<<1, -1, 1, 1>>, <<-1, 1, 2, 0>>, <<1, 1, -1, -1>>, <<0, 2, -1, 1>>}

RECURSIVE Flatten(_)
Flatten(ss) == IF ss = <<>> THEN <<>> ELSE Head(ss) \o Flatten(Tail(ss))

BatchesOf(dims, Examples) ==
    { Tensor(dims, Flatten(es)) : es \in [1..dims[1] -> Examples] }

StatInputs == UNION { BatchesOf(InputDims(b), InExamples) : b \in 1..MaxLossBatch }
StatGrads  == UNION { BatchesOf(GradDims(b), GradExamples) : b \in 1..MaxLossBatch }

(***************************************************************************)
(* Specifications                                                          *)
(***************************************************************************)
InitStrategy == StratInit /\ ParIdle /\ ConvIdle /\ ExtIdle

SpecStrategy == InitStrategy /\ [][StratNext]_vars

InitParallel == ParInit /\ StratIdle /\ ConvIdle /\ ExtIdle

SpecParallel == InitParallel /\ [][ParNext]_vars

\* Forward passes of two layers on tensors the caller holds and changes.
FwdInit ==
    /\ heap \in { h \in [ObjIds -> {Free} \cup {Cell(v) : v \in FwdValues}] :
                    \A i \in ObjIds : h[i].live <=> i \in CallerIds }
    /\ input = [m \in Modules |-> 0]
    /\ weight = [m \in Modules |-> Param(TRUE, WeightSize(ConvArgs))]
    /\ bias = [m \in Modules |-> Param(TRUE, BiasSize(ConvArgs))]
    /\ ctx_active = {}
    /\ c_call = CCall("init", 0, 0, 0, FALSE, None)
    /\ accepted = [m \in Modules |-> Absent]
    /\ last_pass = [m \in Modules |-> NoPass]
    /\ pc = "free"

HeldTuples == {<<>>} \cup {<<t>> : t \in CallerIds} \cup (CallerIds \X CallerIds)

FwdForward(m, ids) == ForwardHeld(m, ids) /\ UNCHANGED pc
FwdMutate(t, v)    == MutateTensor(t, v) /\ UNCHANGED pc

FwdNext ==
    \/ \E m \in Modules, ids \in HeldTuples : FwdForward(m, ids)
    \/ \E t \in CallerIds, v \in FwdValues : FwdMutate(t, v)

InitForward == FwdInit /\ StratIdle /\ ParIdle /\ ExtIdle

SpecForward == InitForward /\ [][FwdNext]_vars

\* Every hook and method of one layer, built with or without bias, with
\* parameters that do or do not require a gradient.
ConvInit ==
    /\ heap = [i \in ObjIds |-> Free]
    /\ input = [m \in Modules |-> 0]
    /\ \E rg \in BOOLEAN :
         weight = [m \in Modules |-> Param(m # 1 \/ rg, WeightSize(ConvArgs))]
    /\ \E b \in {NoParam, Param(TRUE, BiasSize(ConvArgs)),
                 Param(FALSE, BiasSize(ConvArgs))} :
         bias = [m \in Modules |-> IF m = 1 THEN b ELSE Param(TRUE, BiasSize(ConvArgs))]
    /\ ctx_active = {}
    /\ c_call = CCall("init", 0, 0, 0, FALSE, None)
    /\ accepted = [m \in Modules |-> Absent]
    /\ last_pass = [m \in Modules |-> NoPass]
    /\ pc = "free"

ConvForward(xs)         == ForwardFresh(1, xs) /\ UNCHANGED pc
ConvBackward(gs)        == Backward(1, gs) /\ UNCHANGED pc
ConvClearGradBatch      == ClearGradBatch(1) /\ UNCHANGED pc
ConvClearSumGradSquared == ClearSumGradSquared(1) /\ UNCHANGED pc
ConvSetActive(S)        == SetActive(S) /\ UNCHANGED pc

ConvNext ==
    \/ \E xs \in ConvInputTuples : ConvForward(xs)
    \/ \E gs \in ConvGradTuples : ConvBackward(gs)
    \/ ConvClearGradBatch
    \/ ConvClearSumGradSquared
    \/ \E S \in SUBSET Extensions : ConvSetActive(S)

InitConv == ConvInit /\ StratIdle /\ ParIdle /\ ExtIdle

SpecConv == InitConv /\ [][ConvNext]_vars

\* The training loop's use of one layer: forward, backward with both
\* extensions requested, read, clear.
StatInit ==
    /\ heap = [i \in ObjIds |-> Free]
    /\ input = [m \in Modules |-> 0]
    /\ weight = [m \in Modules |-> Param(TRUE, WeightSize(ConvArgs))]
    /\ bias = [m \in Modules |-> Param(TRUE, BiasSize(ConvArgs))]
    /\ ctx_active = Extensions
    /\ c_call = CCall("init", 0, 0, 0, FALSE, None)
    /\ accepted = [m \in Modules |-> Absent]
    /\ last_pass = [m \in Modules |-> NoPass]
    /\ pc = "idle"

StatForward(x) ==
    /\ pc = "idle"
    /\ ForwardFresh(1, <<x>>)
    /\ pc' = "forwarded"

StatBackward(g) ==
    /\ pc = "forwarded"
    /\ Backward(1, <<g>>)
    /\ pc' = "done"

StatClear ==
    /\ pc = "done"
    /\ LET p == clear_sum_grad_squared(clear_grad_batch(ParamsOf(1)).params).params
       IN  /\ weight' = [weight EXCEPT ![1] = p.weight]
           /\ bias' = [bias EXCEPT ![1] = p.bias]
    /\ c_call' = CCall("clear", 1, 0, 0, FALSE, None)
    /\ pc' = "idle"
    /\ UNCHANGED <<heap, input, ctx_active, accepted, last_pass, stratVars, parVars, extVars>>

StatNext ==
    \/ \E x \in StatInputs : StatForward(x)
    \/ \E g \in StatGrads : StatBackward(g)
    \/ StatClear

InitStats == StatInit /\ StratIdle /\ ParIdle /\ ExtIdle

SpecStats == InitStats /\ [][StatNext]_vars

\* Two backward traversals whose layer hooks may interleave, over one Conv2d
\* layer and ReLU layers.
Factor1 == <<1, 2>>
Factor2 == <<-1, 1>>

TraversalSettings ==
    { [active |-> {DIAG_H}, sqrt_h |-> <<Factor1>>, signs |-> <<1>>],
      [active |-> {DIAG_H, BATCH_GRAD}, sqrt_h |-> <<Factor2, Factor1>>, signs |-> <<1, -1>>],
      [active |-> {SUM_GRAD_SQUARED}, sqrt_h |-> <<Factor2>>, signs |-> <<-1>>] }

ReLUModules == { ReLU(v, rg) : v \in {<<1, -1>>, <<2, 3>>}, rg \in BOOLEAN }

CtxForward == ForwardFresh(1, <<X4a>>) /\ UNCHANGED pc

ContextNext ==
    \/ CtxForward
    \/ \E t \in Traversals, s \in TraversalSettings : BeginTraversal(t, s)
    \/ \E t \in Traversals : EndTraversal(t)
    \/ \E t \in Traversals, m \in ReLUModules : ReLUHook(t, m)
    \/ \E t \in Traversals, gs \in {<<Ga>>} : ConvHook(t, gs)

InitContext == ConvIdle /\ StratIdle /\ ParIdle /\ CtxIdle /\ LossIdle /\ HbpIdle

SpecContext == InitContext /\ [][ContextNext]_vars

InitHbp == HbpInit /\ CtxIdle /\ LossIdle /\ ConvIdle /\ StratIdle

SpecHbp == InitHbp /\ [][HbpNext]_vars

InitLoss == LossIdle /\ CtxIdle /\ HbpIdle /\ ConvIdle /\ StratIdle /\ ParIdle

SpecLoss == InitLoss /\ [][LossNext]_vars

(***************************************************************************)
(* Strategy registry: properties                                           *)
(***************************************************************************)
Called(m) == ret[m] # NotCalled

\* C1: every method of the three enumerations raises for a label outside its
\* enumeration's CHOICES (no answer is returned for it), and check_exists
\* returns without raising for a label inside CHOICES.
C1_FailClosed ==
    \A m \in Methods :
        Called(m) =>
            /\ ~In(strategy, ChoicesOf(m)) =>
                   ret[m].raised /\ ret[m].value = None
            /\ (In(strategy, ChoicesOf(m)) /\ m \in {M_LHS_check, M_BPS_check, M_EA_check}) =>
                   ~ret[m].raised

\* A label of no enumeration was handed to all six methods and each raised.
C1_Witness ==
    /\ strategy = "Average"
    /\ \A m \in Methods : Called(m) /\ ret[m].raised

\* C2: for a label in BackpropStrategy.CHOICES exactly one of is_sqrt and
\* is_batch_average answers True.
C2_ExactlyOne ==
    (In(strategy, BackpropStrategy_CHOICES) /\ Called(M_BPS_sqrt) /\ Called(M_BPS_avg)) =>
        /\ ~ret[M_BPS_sqrt].raised /\ ~ret[M_BPS_avg].raised
        /\ {ret[M_BPS_sqrt].value, ret[M_BPS_avg].value} = {"True", "False"}

C2_Witness ==
    /\ strategy = BATCH_AVERAGE
    /\ ret[M_BPS_sqrt].value = "False"
    /\ ret[M_BPS_avg].value = "True"

\* C3: should_average_param_jac answers True for CHEN, False for BOTEV_MARTENS,
\* and True for no other label.
C3_AverageParamJac ==
    Called(M_EA_avg) =>
        /\ strategy = CHEN => ret[M_EA_avg].value = "True"
        /\ strategy = BOTEV_MARTENS => ret[M_EA_avg].value = "False"
        /\ ret[M_EA_avg].value = "True" => strategy = CHEN

C3_Witness ==
    /\ strategy = BOTEV_MARTENS
    /\ Called(M_EA_avg)
    /\ ret[M_EA_avg].value = "False"

(***************************************************************************)
(* Parallel composite: properties                                          *)
(***************************************************************************)
Ceil(a, b) == (a + b - 1) \div b

NonIncreasing(s) == \A i \in 1..(Len(s) - 1) : s[i] >= s[i + 1]

\* What the repository's test asserts for block count k, if anything.
TestAgrees(k, r) ==
    \A c \in test_splitting_into_blocks.cases : c[1] = k => r = c[2]

\* C4: for 1 <= k <= T, compute_out_features_list(k) has at most k blocks, sums
\* to T, every block is ceil(T/k) or floor(T/k), the sizes do not increase, and
\* for T = 10 the lists are those of the test ([10], [3,3,2,2], [2,2,2,2,2],
\* [2,2,2,2,1,1]).
C4_MergePartition ==
    (p_call.op = "list" /\ p_call.k <= total_out_features(layers)) =>
        LET T == total_out_features(layers)
            k == p_call.k
            r == p_call.ret
        IN  /\ Len(r) <= k
            /\ Sum(r) = T
            /\ \A i \in DOMAIN r : r[i] \in {T \div k, Ceil(T, k)}
            /\ NonIncreasing(r)
            /\ (T = Sum(test_splitting_into_blocks.out_features_list) /\ k < T)
                   => TestAgrees(k, r)

C4_Witness ==
    /\ layers = <<3, 2, 5>>
    /\ p_call.op = "list"
    /\ p_call.k = 6
    /\ p_call.ret = <<2, 2, 2, 2, 1, 1>>

\* C5: for k >= T, compute_out_features_list(k) is T blocks of size 1 (for
\* T = 10 the test's ten unit blocks for k = 10 and k = 15).
C5_UnitBlocks ==
    (p_call.op = "list" /\ p_call.k >= total_out_features(layers)) =>
        LET T == total_out_features(layers)
        IN  /\ p_call.ret = [i \in 1..T |-> 1]
            /\ T = Sum(test_splitting_into_blocks.out_features_list)
                   => TestAgrees(p_call.k, p_call.ret)

C5_Witness ==
    /\ layers = <<3, 2, 5>>
    /\ p_call.op = "list"
    /\ p_call.k = 15
    /\ Len(p_call.ret) = 10

\* C6: a split with the sizes the composite had before a merge succeeds and
\* gives the composite exactly those sizes again.
C6_RoundTrip ==
    (p_call.op = "split" /\ p_call.roundtrip) =>
        /\ ~p_call.raised
        /\ layers = p_orig

C6_Witness ==
    /\ p_call.op = "split"
    /\ p_call.roundtrip
    /\ layers = <<3, 2, 5>>

\* C7: a split whose sizes do not sum to total_out_features raises SizeMismatch
\* and leaves the partition (and so the total) as it was.
C7_SplitRejects ==
    [][(p_call'.op = "split" /\ p_call'.argsum # total_out_features(layers)) =>
           /\ p_call'.raised
           /\ p_call'.exc = "SizeMismatch"
           /\ layers' = layers]_vars

C7_Witness ==
    /\ p_call.op = "split"
    /\ p_call.raised
    /\ p_call.argsum = 9
    /\ layers = <<3, 2, 5>>

(***************************************************************************)
(* Conv2d: properties                                                      *)
(***************************************************************************)
\* C8: each layer's buffer holds the value its most recent accepted forward
\* input had at the call; it is an object of the layer's own (not a caller's
\* tensor, not another layer's buffer); and no other buffer is left alive.
C8_CachedInput ==
    /\ \A m \in Modules :
          /\ accepted[m] = Absent => input[m] = 0
          /\ accepted[m] # Absent =>
                /\ input[m] # 0
                /\ heap[input[m]].live
                /\ heap[input[m]].val = accepted[m]
    /\ \A m \in Modules :
          input[m] # 0 =>
              /\ input[m] \notin CallerIds
              /\ \A n \in Modules \ {m} : input[n] # input[m]
    /\ \A i \in ObjIds \ CallerIds :
          heap[i].live => \E m \in Modules : input[m] = i

\* Both layers have cached an input and the caller has since changed every
\* tensor it holds.
C8_Witness ==
    /\ accepted[1] = X4b
    /\ accepted[2] = X4a
    /\ \A t \in CallerIds : heap[t].val = X3
    /\ c_call.op = "mutate"

\* C9: a forward call whose input is not exactly one 4-dimensional tensor
\* raises and leaves the cached input (and everything else) as it was; a
\* backward call that does not get exactly one output gradient raises and
\* writes no artifact on any parameter.
C9_HookAborts ==
    [][/\ (c_call'.op = "forward" /\ ~(c_call'.nargs = 1 /\ c_call'.rank = 4)) =>
              /\ c_call'.raised
              /\ c_call'.exc = "ValueError"
              /\ <<heap, input, weight, bias>>' = <<heap, input, weight, bias>>
       /\ (c_call'.op = "backward" /\ c_call'.nargs # 1) =>
              /\ c_call'.raised
              /\ c_call'.exc = "ValueError"
              /\ <<heap, input, weight, bias>>' = <<heap, input, weight, bias>>]_vars

\* The backward hook was refused while both extensions were requested and the
\* weight could take artifacts; a forward input was cached before.
C9_Witness ==
    /\ c_call.op = "backward"
    /\ c_call.nargs = 2
    /\ c_call.raised
    /\ ctx_active = Extensions
    /\ weight[1].requires_grad
    /\ weight[1].grad_batch = Absent
    /\ CachedInput(1) = X4a

\* C10: after a backward pass with both extensions, sum_grad_squared of the
\* weight and of the bias is the sum over the examples of the squared
\* per-example gradient, (grad_batch ** 2).sum(0).
C10_SumOfSquares ==
    pc = "done" =>
        /\ weight[1].sum_grad_squared = T_sum(T_pow2(weight[1].grad_batch), 0)
        /\ bias[1].sum_grad_squared = T_sum(T_pow2(bias[1].grad_batch), 0)

\* A batch of two examples on which the sum of squares differs from the
\* square of the summed gradient, for the weight and for the bias.
C10_Witness ==
    /\ pc = "done"
    /\ CachedInput(1).dims[1] = 2
    /\ weight[1].sum_grad_squared # T_pow2(T_sum(weight[1].grad_batch, 0))
    /\ bias[1].sum_grad_squared # T_pow2(T_sum(bias[1].grad_batch, 0))

C12_ContextNotShared ==
    \A t \in Traversals :
        t_read[t].hook # "none" => t_read[t].owner = t

\* C14: the ReLU hook does not raise; if the layer's input requires a
\* gradient every factor of the list is replaced by its Jacobian product with
\* the layer (same length, same order) and the signs stay; otherwise the
\* context stays as it was.
C14_ReLUHookUpdates ==
    r_call.op = "apply" =>
        /\ ~r_call.raised
        /\ Ctx(ctx_sqrt_h, ctx_signs) =
              IF r_call.module.input0.requires_grad
              THEN backpropagate_sqrt_h(r_call.before, r_call.module, None, None,
                                        r_call.before.sqrt_h, r_call.before.signs)
              ELSE r_call.before

(***************************************************************************)
(* Loss derivatives: properties                                            *)
(***************************************************************************)
\* C13: on a loss whose Hessian is not defined, each of sum_hessian,
\* sqrt_hessian and sqrt_hessian_sampled raises and returns no curvature, in
\* the one call made (no retry); the three tests that expect the failure pass.
C13_HessianUndefinedFails ==
    /\ (d_call.op \in {"sum_hessian", "sqrt_hessian", "sqrt_hessian_sampled"}
          /\ ~d_call.problem.hessian_defined) =>
          /\ d_call.raised
          /\ d_call.exc = "ValueError"
          /\ d_call.value = None
          /\ d_call.calls = 1
    /\ d_call.op \in ShouldFailTests => d_call.outcome = "passed"

C13_Witness ==
    /\ d_call.op = "sqrt_hessian_sampled"
    /\ d_call.problem \in LOSS_FAIL_PROBLEMS
    /\ d_call.samples = MaxSamples
    /\ d_call.raised

(***************************************************************************)
(* Conv2d: dispatch of the backward hook and clearing                      *)
(***************************************************************************)
\* A parameter without its artifacts: the tensor itself, as the optimiser sees it.
Bare(param) == [param EXCEPT !.grad_batch = Absent, !.sum_grad_squared = Absent]

\* C15: a backward hook call that does not raise writes an artifact on a
\* parameter if and only if the artifact's extension is active and the
\* parameter exists and requires a gradient; every other artifact of the
\* module, the parameters of the other modules, the tensors and the cached
\* inputs stay as they were.
C15_DispatchExact ==
    [][(c_call'.op = "backward" /\ ~c_call'.raised) =>
         LET m == c_call'.module
         IN  /\ \A a \in Artifacts :
                  LET P == ParamOf(ParamsOf(m), a)
                      due == /\ CTX_is_active(ctx_active, ExtensionOf(a))
                             /\ P.exists
                             /\ P.requires_grad
                  IN  /\ due <=> a \in last_pass'[m].written
                      /\ due => ArtifactOf(Params(weight'[m], bias'[m]), a) # Absent
                      /\ ~due => ArtifactOf(Params(weight'[m], bias'[m]), a) = ArtifactOf(ParamsOf(m), a)
             /\ \A n \in Modules \ {m} : Params(weight'[n], bias'[n]) = ParamsOf(n)
             /\ Bare(weight'[m]) = Bare(weight[m])
             /\ Bare(bias'[m]) = Bare(bias[m])
             /\ <<heap, input, ctx_active>>' = <<heap, input, ctx_active>>]_vars

\* The hook ran with the sum of squares alone on a layer whose bias takes no
\* gradient: the weight got its sum of squares, the bias nothing.
C15_Witness ==
    /\ c_call.op = "backward"
    /\ ~c_call.raised
    /\ last_pass[1].active = {SUM_GRAD_SQUARED}
    /\ bias[1].exists
    /\ ~bias[1].requires_grad
    /\ last_pass[1].written = {<<"weight", "sum_grad_squared">>}
    /\ weight[1].sum_grad_squared # Absent
    /\ bias[1].sum_grad_squared = Absent

\* C17: clear_grad_batch and clear_sum_grad_squared never raise, whether or
\* not the artifact or the bias is there; afterwards neither weight nor bias
\* carries the artifact; clearing once more changes nothing; the artifacts of
\* the other kind, the parameters themselves, the other module, the tensors
\* and the cached inputs are as before.
C17_ClearTotalIdempotent ==
    [][(c_call'.op \in {"clear_grad_batch", "clear_sum_grad_squared"}) =>
         LET m     == c_call'.module
             after == Params(weight'[m], bias'[m])
             again == IF c_call'.op = "clear_grad_batch"
                      THEN clear_grad_batch(after) ELSE clear_sum_grad_squared(after)
         IN  /\ ~c_call'.raised
             /\ \A a \in Artifacts :
                  IF (a[2] = "grad_batch") <=> (c_call'.op = "clear_grad_batch")
                  THEN ArtifactOf(after, a) = Absent
                  ELSE ArtifactOf(after, a) = ArtifactOf(ParamsOf(m), a)
             /\ ~again.raised
             /\ again.params = after
             /\ Bare(weight'[m]) = Bare(weight[m])
             /\ Bare(bias'[m]) = Bare(bias[m])
             /\ \A n \in Modules \ {m} : Params(weight'[n], bias'[n]) = ParamsOf(n)
             /\ <<heap, input, ctx_active>>' = <<heap, input, ctx_active>>]_vars

\* clear_grad_batch ran on a layer without bias whose weight carried no
\* per-example gradient but a sum of squares, which is still there.
C17_Witness ==
    /\ c_call.op = "clear_grad_batch"
    /\ c_call.module = 1
    /\ ~bias[1].exists
    /\ last_pass[1].written = {<<"weight", "sum_grad_squared">>}
    /\ weight[1].grad_batch = Absent
    /\ weight[1].sum_grad_squared # Absent

(***************************************************************************)
(* HBPParallel: merge does not depend on the partition                     *)
(***************************************************************************)
\* C16: a split whose sizes sum to total_out_features succeeds and keeps
\* total_out_features, and for every block count k compute_out_features_list(k)
\* of the split composite is that of the composite before the split; on the
\* test's composite, split along [3, 2, 5], the lists are still the test's.
C16_MergeIgnoresPartition ==
    [][(p_call'.op = "split" /\ p_call'.argsum = total_out_features(layers)) =>
         /\ ~p_call'.raised
         /\ total_out_features(layers') = total_out_features(layers)
         /\ \A k \in 1..MaxBlocks :
              /\ compute_out_features_list(layers', k) = compute_out_features_list(layers, k)
              /\ layers' = test_splitting_into_blocks.out_features_list
                   => TestAgrees(k, compute_out_features_list(layers', k))]_vars

\* The test's second half: the single block of 10 was split along [3, 2, 5].
C16_Witness ==
    /\ p_call.op = "split"
    /\ ~p_call.raised
    /\ ~p_call.roundtrip
    /\ layers = test_splitting_into_blocks.out_features_list
    /\ compute_out_features_list(layers, 4) = <<3, 3, 2, 2>>

(***************************************************************************)
(* HBPParallel: Hessian backpropagation agrees with the merged layer       *)
(***************************************************************************)
\* C18: in a Hessian backpropagation through a composite of sibling linear
\* layers, sibling idx gets exactly the rows of the upstream curvature factor
\* of its own output features; the contribution forwarded to the input is the
\* one the single layer of all stacked weights computes from the whole
\* factor, the input Hessian is the brute-force input Hessian, and every
\* sibling's bias and weight Hessian is the brute-force Hessian of that
\* sibling's parameters.
C18_ParallelEqualsMerged ==
    h_call.op = "backward_hessian" =>
        LET sizes  == h_call.sizes
            S      == h_call.factor
            H      == Gram(S)
            merged == linear_backward_hessian(h_weight, S, h_call.input)
        IN  /\ \A idx \in 1..Len(sizes) :
                  /\ Len(h_call.out.slices[idx]) = sizes[idx]
                  /\ h_call.out.slices[idx] = Rows(S, sizes, idx)
                  /\ h_call.out.bias_hessian[idx]
                        = brute_force_hessian(sizes, idx, "bias", H, h_call.input)
                  /\ h_call.out.weight_hessian[idx]
                        = brute_force_hessian(sizes, idx, "weight", H, h_call.input)
            /\ h_call.out.in_factor = merged.in_factor
            /\ h_call.out.in_hessian = brute_force_input_hessian(h_weight, H)

\* Three siblings of one output feature each, an upstream curvature that
\* couples them, and sibling contributions that differ from one another.
C18_Witness ==
    /\ h_call.op = "backward_hessian"
    /\ h_call.sizes = <<1, 1, 1>>
    /\ h_call.factor = [i \in 1..3 |-> <<1>>]
    /\ h_weight[1] # h_weight[2]
    /\ Gram(h_call.factor)[1][2] # 0
    /\ h_call.out.in_hessian # Gram(MatMul(Transpose(<<h_weight[3]>>), <<h_call.factor[3]>>))

====
